---- MODULE Spec2Model ----
(***************************************************************************)
(* Model of crates/consensus/consensus/src/lib.rs: the HeaderValidator      *)
(* capability with its default validate_header_range algorithm, and the    *)
(* ConsensusError taxonomy with is_state_root_error.                       *)
(*                                                                         *)
(* validate_header and validate_header_against_parent are trait methods    *)
(* without a body in lib.rs; the two rulesets used here ("eth", following   *)
(* section 4.1 of the specification, and the permissive "noop") stand for  *)
(* the implementations that live in other crates.                          *)
(***************************************************************************)
EXTENDS Integers, Sequences, FiniteSets, TLC

VARIABLES
    validator,      \* the shared, read-only validator instance (&self)
    headers,        \* headers[c]: the slice passed to call c
    iter,           \* iter[c]: what is left of remaining_headers in call c
    parent,         \* parent[c]: the local `parent` of call c
    child,          \* child[c]: the local `child` of call c
    pc,             \* pc[c]: where call c stands in validate_header_range
    result,         \* result[c]: what call c returned
    calls,          \* calls[c]: the validator calls made by call c, in order
    error,          \* a ConsensusError value held by a caller
    state_root_flag,\* what is_state_root_error answered for `error`, if asked
    from_tx         \* whether `error` came out of From<InvalidTransactionError>

vars == <<validator, headers, iter, parent, child, pc, result, calls,
          error, state_root_flag, from_tx>>

range_vars == <<validator, headers, iter, parent, child, pc, result, calls>>

error_vars == <<error, state_root_flag, from_tx>>

(***************************************************************************)
(* Bounds of the model.                                                    *)
(***************************************************************************)
\* Largest block number of a header of the input universe.
MaxNum == 2

\* Longest header slice passed to one validate_header_range call.
MaxLen == 3

\* Longest header slice of each of the concurrent calls.
ConcLen == 2

\* Gas limit of the headers of the reference chain.
BaseGasLimit == 3000

\* Largest sample payload of an error value.
MaxPayload == 1

\* The divisor of the gas-limit step bound.
GAS_LIMIT_BOUND_DIVISOR == 1024

(***************************************************************************)
(* ConsensusError: one constructor per variant of the enum.                *)
(***************************************************************************)
HeaderGasUsedExceedsGasLimit(gas_used, gas_limit) ==
    [kind |-> "HeaderGasUsedExceedsGasLimit", gas_used |-> gas_used, gas_limit |-> gas_limit]

HeaderGasLimitExceedsMax(gas_limit) ==
    [kind |-> "HeaderGasLimitExceedsMax", gas_limit |-> gas_limit]

BlockGasUsed(got, expected, gas_spent_by_tx) ==
    [kind |-> "BlockGasUsed", got |-> got, expected |-> expected,
     gas_spent_by_tx |-> gas_spent_by_tx]

BodyOmmersHashDiff(got, expected) ==
    [kind |-> "BodyOmmersHashDiff", got |-> got, expected |-> expected]

BodyStateRootDiff(got, expected) ==
    [kind |-> "BodyStateRootDiff", got |-> got, expected |-> expected]

BodyTransactionRootDiff(got, expected) ==
    [kind |-> "BodyTransactionRootDiff", got |-> got, expected |-> expected]

BodyReceiptRootDiff(got, expected) ==
    [kind |-> "BodyReceiptRootDiff", got |-> got, expected |-> expected]

BodyBloomLogDiff(got, expected) ==
    [kind |-> "BodyBloomLogDiff", got |-> got, expected |-> expected]

BodyWithdrawalsRootDiff(got, expected) ==
    [kind |-> "BodyWithdrawalsRootDiff", got |-> got, expected |-> expected]

BodyRequestsHashDiff(got, expected) ==
    [kind |-> "BodyRequestsHashDiff", got |-> got, expected |-> expected]

BlockKnown(hash, number) ==
    [kind |-> "BlockKnown", hash |-> hash, number |-> number]

ParentUnknown(hash) ==
    [kind |-> "ParentUnknown", hash |-> hash]

ParentBlockNumberMismatch(parent_block_number, block_number) ==
    [kind |-> "ParentBlockNumberMismatch",
     parent_block_number |-> parent_block_number, block_number |-> block_number]

ParentHashMismatch(got, expected) ==
    [kind |-> "ParentHashMismatch", got |-> got, expected |-> expected]

TimestampIsInFuture(timestamp, present_timestamp) ==
    [kind |-> "TimestampIsInFuture", timestamp |-> timestamp,
     present_timestamp |-> present_timestamp]

ExtraDataExceedsMax(len) ==
    [kind |-> "ExtraDataExceedsMax", len |-> len]

BlobGasUsedExceedsMaxBlobGasPerBlock(blob_gas_used, max_blob_gas_per_block) ==
    [kind |-> "BlobGasUsedExceedsMaxBlobGasPerBlock", blob_gas_used |-> blob_gas_used,
     max_blob_gas_per_block |-> max_blob_gas_per_block]

BlobGasUsedNotMultipleOfBlobGasPerBlob(blob_gas_used, blob_gas_per_blob) ==
    [kind |-> "BlobGasUsedNotMultipleOfBlobGasPerBlob", blob_gas_used |-> blob_gas_used,
     blob_gas_per_blob |-> blob_gas_per_blob]

BlobGasUsedDiff(got, expected) ==
    [kind |-> "BlobGasUsedDiff", got |-> got, expected |-> expected]

InvalidTransaction(value) ==
    [kind |-> "InvalidTransaction", value |-> value]

BaseFeeDiff(got, expected) ==
    [kind |-> "BaseFeeDiff", got |-> got, expected |-> expected]

ExcessBlobGasDiff(got, expected, parent_excess_blob_gas, parent_blob_gas_used) ==
    [kind |-> "ExcessBlobGasDiff", got |-> got, expected |-> expected,
     parent_excess_blob_gas |-> parent_excess_blob_gas,
     parent_blob_gas_used |-> parent_blob_gas_used]

GasLimitInvalidIncrease(parent_gas_limit, child_gas_limit) ==
    [kind |-> "GasLimitInvalidIncrease", parent_gas_limit |-> parent_gas_limit,
     child_gas_limit |-> child_gas_limit]

GasLimitInvalidMinimum(child_gas_limit) ==
    [kind |-> "GasLimitInvalidMinimum", child_gas_limit |-> child_gas_limit]

GasLimitInvalidBlockMaximum(block_gas_limit) ==
    [kind |-> "GasLimitInvalidBlockMaximum", block_gas_limit |-> block_gas_limit]

GasLimitInvalidDecrease(parent_gas_limit, child_gas_limit) ==
    [kind |-> "GasLimitInvalidDecrease", parent_gas_limit |-> parent_gas_limit,
     child_gas_limit |-> child_gas_limit]

TimestampIsInPast(parent_timestamp, timestamp) ==
    [kind |-> "TimestampIsInPast", parent_timestamp |-> parent_timestamp,
     timestamp |-> timestamp]

Other(message) ==
    [kind |-> "Other", message |-> message]

\* The variants that carry no data.
UnitErrorKinds ==
    {"BaseFeeMissing", "TransactionSignerRecoveryError", "TheMergeDifficultyIsNotZero",
     "TheMergeNonceIsNotZero", "TheMergeOmmerRootIsNotEmpty", "WithdrawalsRootMissing",
     "RequestsHashMissing", "WithdrawalsRootUnexpected", "RequestsHashUnexpected",
     "BodyWithdrawalsMissing", "BodyRequestsMissing", "BlobGasUsedMissing",
     "BlobGasUsedUnexpected", "ExcessBlobGasMissing", "ExcessBlobGasUnexpected",
     "ParentBeaconBlockRootMissing", "ParentBeaconBlockRootUnexpected"}

UnitError(kind) == [kind |-> kind]

\* Results of the validator methods: Ok(()) or Err(e).
Ok == [ok |-> TRUE]

Err(e) == [ok |-> FALSE, err |-> e]

\* HeaderConsensusError(e, header), as the Err of validate_header_range.
HeaderConsensusError(e, header) == [ok |-> FALSE, err |-> e, header |-> header]

(***************************************************************************)
(* Headers.  A SealedHeader is the header's fields with its precomputed    *)
(* hash.  The input universe is a reference chain 0..MaxNum in which every *)
(* header links to its predecessor, and copies of the reference headers    *)
(* with one field changed.                                                 *)
(***************************************************************************)
\* What is changed in a copy of a reference header, at every number above 0.
Faults == {"none", "gas_used", "parent_hash"}

\* What is changed in further copies of the first header after genesis.
FirstChildFaults == {"timestamp", "gas_edge", "gas_over"}

\* The changes that make sense for the genesis header, which has no parent.
GenesisFaults == {"none", "gas_used"}

FaultCode(f) ==
    CASE f = "none" -> 1
      [] f = "gas_used" -> 2
      [] f = "parent_hash" -> 3
      [] f = "timestamp" -> 4
      [] f = "gas_edge" -> 5
      [] f = "gas_over" -> 6

\* The sealed hash: a different value for every different header content.
Hash(n, f) == n * 8 + FaultCode(f)

ZeroHash == 0

MkHeader(n, f) ==
    LET step == BaseGasLimit \div GAS_LIMIT_BOUND_DIVISOR
        gas_limit == CASE f = "gas_edge" -> BaseGasLimit + step
                       [] f = "gas_over" -> BaseGasLimit + step + 1
                       [] OTHER -> BaseGasLimit
    IN  [number      |-> n,
         hash        |-> Hash(n, f),
         parent_hash |-> IF n = 0 THEN ZeroHash
                         ELSE IF f = "parent_hash" THEN Hash(n - 1, "parent_hash")
                         ELSE Hash(n - 1, "none"),
         timestamp   |-> IF f = "timestamp" THEN n ELSE n + 1,
         gas_limit   |-> gas_limit,
         gas_used    |-> IF f = "gas_used" THEN gas_limit + 1 ELSE 0]

Headers ==
    {MkHeader(0, f) : f \in GenesisFaults}
        \cup {MkHeader(n, f) : n \in 1..MaxNum, f \in Faults}
        \cup {MkHeader(1, f) : f \in FirstChildFaults}

\* The headers the concurrent calls draw from.
ConcHeaders ==
    {MkHeader(0, "none"), MkHeader(1, "none"), MkHeader(1, "gas_used"),
     MkHeader(1, "parent_hash")}

\* A local that holds no header yet.
NoHeader ==
    [number |-> -1, hash |-> ZeroHash, parent_hash |-> ZeroHash, timestamp |-> 0,
     gas_limit |-> 0, gas_used |-> 0]

HeaderSeqs(universe, n) == UNION {[1..k -> universe] : k \in 0..n}

(***************************************************************************)
(* The rulesets behind validate_header and validate_header_against_parent. *)
(***************************************************************************)
Validators == {"eth", "noop"}

\* Standalone validity: gas used must not exceed the gas limit.
EthValidateHeader(header) ==
    IF header.gas_used > header.gas_limit
    THEN Err(HeaderGasUsedExceedsGasLimit(header.gas_used, header.gas_limit))
    ELSE Ok

\* Block number and parent hash against the parent.
EthValidateAgainstParentHashNumber(header, parent_header) ==
    IF parent_header.number + 1 # header.number
    THEN Err(ParentBlockNumberMismatch(parent_header.number, header.number))
    ELSE IF parent_header.hash # header.parent_hash
    THEN Err(ParentHashMismatch(header.parent_hash, parent_header.hash))
    ELSE Ok

\* The timestamp must be strictly greater than the parent's.
EthValidateAgainstParentTimestamp(header, parent_header) ==
    IF header.timestamp <= parent_header.timestamp
    THEN Err(TimestampIsInPast(parent_header.timestamp, header.timestamp))
    ELSE Ok

\* The step bound taken strictly: a change of exactly parent/1024 is rejected.
EthValidateAgainstParentGasLimitStrict(header, parent_header) ==
    LET bound == parent_header.gas_limit \div GAS_LIMIT_BOUND_DIVISOR
    IN  IF header.gas_limit > parent_header.gas_limit
        THEN IF header.gas_limit - parent_header.gas_limit >= bound
             THEN Err(GasLimitInvalidIncrease(parent_header.gas_limit, header.gas_limit))
             ELSE Ok
        ELSE IF parent_header.gas_limit - header.gas_limit >= bound
             THEN Err(GasLimitInvalidDecrease(parent_header.gas_limit, header.gas_limit))
             ELSE Ok

\* The gas limit may change by at most parent_limit/1024 in either direction.
EthValidateAgainstParentGasLimit(header, parent_header) ==
    LET bound == parent_header.gas_limit \div GAS_LIMIT_BOUND_DIVISOR
    IN  IF header.gas_limit > parent_header.gas_limit
        THEN IF header.gas_limit - parent_header.gas_limit > bound
             THEN Err(GasLimitInvalidIncrease(parent_header.gas_limit, header.gas_limit))
             ELSE Ok
        ELSE IF parent_header.gas_limit - header.gas_limit > bound
             THEN Err(GasLimitInvalidDecrease(parent_header.gas_limit, header.gas_limit))
             ELSE Ok

\* The parent-relative checks, the first failure returned.
EthValidateHeaderAgainstParent(header, parent_header) ==
    LET r1 == EthValidateAgainstParentHashNumber(header, parent_header)
        r2 == EthValidateAgainstParentTimestamp(header, parent_header)
        r3 == EthValidateAgainstParentGasLimit(header, parent_header)
    IN  IF ~r1.ok THEN r1 ELSE IF ~r2.ok THEN r2 ELSE r3

\* The permissive ruleset accepts everything.
NoopValidateHeader(header) == Ok

NoopValidateHeaderAgainstParent(header, parent_header) == Ok

\* HeaderValidator::validate_header of the instance v.
validate_header(v, header) ==
    IF v = "eth" THEN EthValidateHeader(header) ELSE NoopValidateHeader(header)

\* HeaderValidator::validate_header_against_parent of the instance v.
validate_header_against_parent(v, header, parent_header) ==
    IF v = "eth" THEN EthValidateHeaderAgainstParent(header, parent_header)
    ELSE NoopValidateHeaderAgainstParent(header, parent_header)

(***************************************************************************)
(* HeaderValidator::validate_header_range, one step per validator call.    *)
(***************************************************************************)
\* One validator call as seen from outside: the method, its arguments, its result.
CallRecord(op, header, parent_header, res) ==
    [op |-> op, header |-> header, parent |-> parent_header, res |-> res]

\* split_first that leaves the first header among the remaining ones.
remaining_all(hs) == hs

\* The remaining_headers of headers.split_first().
remaining_headers(hs) == Tail(hs)

\* The empty slice rejected.
OnNoneRejected == Err(Other("empty range"))

\* split_first gave None: the `if let` is skipped and Ok(()) returned.
OnNone == Ok

\* The error of the initial header swallowed.
InitialDropped(c, e) == Ok

\* map_err of the initial header's standalone check.
InitialError(c, e) == HeaderConsensusError(e, Head(headers[c]))

\* The standalone error of a child attached to the parent.
ChildErrorOnParent(c, e) == HeaderConsensusError(e, parent[c])

\* Both checks of a child evaluated, the parent-relative error reported first.
ChildErrorAfterParentCheck(c, e) ==
    LET r == validate_header_against_parent(validator, child[c], parent[c])
    IN  IF ~r.ok THEN HeaderConsensusError(r.err, child[c])
        ELSE HeaderConsensusError(e, child[c])

\* map_err of a child's standalone check.
ChildError(c, e) == HeaderConsensusError(e, child[c])

\* The parent-relative error attached to the parent.
AgainstParentErrorOnParent(c, e) == HeaderConsensusError(e, parent[c])

\* map_err of a child's parent-relative check.
AgainstParentError(c, e) == HeaderConsensusError(e, child[c])

\* `parent` left at the header it held.
KeepParent(c) == parent[c]

\* parent = child, at the end of the loop body.
NextParent(c) == child[c]

\* `parent` read from a place all calls share.
SharedParentArgument(c) == parent[CHOOSE d \in DOMAIN parent : TRUE]

\* The parent argument of the parent-relative check: the call's own local.
ParentArgument(c) == parent[c]

\* The parent-relative check preceded by a block-number contiguity check.
AgainstParentContiguous(c) ==
    IF child[c].number # ParentArgument(c).number + 1
    THEN Err(ParentBlockNumberMismatch(ParentArgument(c).number, child[c].number))
    ELSE validate_header_against_parent(validator, child[c], ParentArgument(c))

\* self.validate_header_against_parent(child, parent)
AgainstParentCall(c) ==
    validate_header_against_parent(validator, child[c], ParentArgument(c))

\* if let Some((initial_header, remaining_headers)) = headers.split_first()
SplitFirst(c) ==
    /\ pc[c] = "split_first"
    /\ IF headers[c] = <<>>
       THEN /\ result' = [result EXCEPT ![c] = OnNone]
            /\ pc' = [pc EXCEPT ![c] = "done"]
            /\ iter' = iter
       ELSE /\ iter' = [iter EXCEPT ![c] = remaining_headers(headers[c])]
            /\ pc' = [pc EXCEPT ![c] = "initial"]
            /\ result' = result
    /\ UNCHANGED <<validator, headers, parent, child, calls, error_vars>>

\* self.validate_header(initial_header).map_err(..)?; let mut parent = initial_header;
ValidateInitial(c) ==
    /\ pc[c] = "initial"
    /\ LET initial_header == Head(headers[c])
           res == validate_header(validator, initial_header)
       IN  /\ calls' = [calls EXCEPT ![c] =
                 Append(@, CallRecord("validate_header", initial_header, NoHeader, res))]
           /\ IF res.ok
              THEN /\ parent' = [parent EXCEPT ![c] = initial_header]
                   /\ pc' = [pc EXCEPT ![c] = "loop"]
                   /\ result' = result
              ELSE /\ result' = [result EXCEPT ![c] = InitialError(c, res.err)]
                   /\ pc' = [pc EXCEPT ![c] = "done"]
                   /\ parent' = parent
    /\ UNCHANGED <<validator, headers, iter, child, error_vars>>

\* for child in remaining_headers { .. } Ok(())
LoopNext(c) ==
    /\ pc[c] = "loop"
    /\ IF iter[c] = <<>>
       THEN /\ result' = [result EXCEPT ![c] = Ok]
            /\ pc' = [pc EXCEPT ![c] = "done"]
            /\ UNCHANGED <<iter, child>>
       ELSE /\ child' = [child EXCEPT ![c] = Head(iter[c])]
            /\ iter' = [iter EXCEPT ![c] = Tail(@)]
            /\ pc' = [pc EXCEPT ![c] = "child"]
            /\ result' = result
    /\ UNCHANGED <<validator, headers, parent, calls, error_vars>>

\* self.validate_header(child).map_err(..)?;
ValidateChild(c) ==
    /\ pc[c] = "child"
    /\ LET res == validate_header(validator, child[c])
       IN  /\ calls' = [calls EXCEPT ![c] =
                 Append(@, CallRecord("validate_header", child[c], NoHeader, res))]
           /\ IF res.ok
              THEN /\ pc' = [pc EXCEPT ![c] = "against_parent"]
                   /\ result' = result
              ELSE /\ result' = [result EXCEPT ![c] = ChildError(c, res.err)]
                   /\ pc' = [pc EXCEPT ![c] = "done"]
    /\ UNCHANGED <<validator, headers, iter, parent, child, error_vars>>

\* self.validate_header_against_parent(child, parent).map_err(..)?; parent = child;
ValidateAgainstParent(c) ==
    /\ pc[c] = "against_parent"
    /\ LET res == AgainstParentCall(c)
       IN  /\ calls' = [calls EXCEPT ![c] =
                 Append(@, CallRecord("validate_header_against_parent", child[c],
                                      ParentArgument(c), res))]
           /\ IF res.ok
              THEN /\ parent' = [parent EXCEPT ![c] = NextParent(c)]
                   /\ pc' = [pc EXCEPT ![c] = "loop"]
                   /\ result' = result
              ELSE /\ result' = [result EXCEPT ![c] = AgainstParentError(c, res.err)]
                   /\ pc' = [pc EXCEPT ![c] = "done"]
                   /\ parent' = parent
    /\ UNCHANGED <<validator, headers, iter, child, error_vars>>

\* The result of a call that has not returned.
Pending == [ok |-> FALSE, pending |-> TRUE]

\* A caller holding no error value.
NoError == <<>>

\* The calls in flight, each at the entry of validate_header_range.
RangeInit(ids, universe, n) ==
    /\ validator \in Validators
    /\ headers \in [ids -> HeaderSeqs(universe, n)]
    /\ iter = [c \in ids |-> <<>>]
    /\ parent = [c \in ids |-> NoHeader]
    /\ child = [c \in ids |-> NoHeader]
    /\ pc = [c \in ids |-> "split_first"]
    /\ result = [c \in ids |-> Pending]
    /\ calls = [c \in ids |-> <<>>]
    /\ error = NoError
    /\ state_root_flag = <<>>
    /\ from_tx = FALSE

\* One call of validate_header_range.
Init == RangeInit({"a"}, Headers, MaxLen)

\* Two calls of validate_header_range on the same validator instance.
ConcInit == RangeInit({"a", "b"}, ConcHeaders, ConcLen)

Next ==
    \/ \E c \in DOMAIN headers : SplitFirst(c)
    \/ \E c \in DOMAIN headers : ValidateInitial(c)
    \/ \E c \in DOMAIN headers : LoopNext(c)
    \/ \E c \in DOMAIN headers : ValidateChild(c)
    \/ \E c \in DOMAIN headers : ValidateAgainstParent(c)

Spec == Init /\ [][Next]_vars

ConcSpec == ConcInit /\ [][Next]_vars

(***************************************************************************)
(* Notions the properties are stated with.                                 *)
(***************************************************************************)
Done(c) == pc[c] = "done"

\* The k-th validator call a left-to-right pass over hs makes: the standalone
\* check of hs[1], then for each later header its standalone check and its
\* check against the element just before it.
ExpectedCall(v, hs, k) ==
    IF k = 1
    THEN CallRecord("validate_header", hs[1], NoHeader, validate_header(v, hs[1]))
    ELSE IF k % 2 = 0
    THEN CallRecord("validate_header", hs[k \div 2 + 1], NoHeader,
                    validate_header(v, hs[k \div 2 + 1]))
    ELSE CallRecord("validate_header_against_parent", hs[(k + 1) \div 2],
                    hs[(k - 1) \div 2],
                    validate_header_against_parent(v, hs[(k + 1) \div 2], hs[(k - 1) \div 2]))

\* Every standalone check and every check of adjacent elements passes.
AllChecksPass(v, hs) ==
    /\ \A i \in 1..Len(hs) : validate_header(v, hs[i]).ok
    /\ \A i \in 2..Len(hs) : validate_header_against_parent(v, hs[i], hs[i - 1]).ok

(***************************************************************************)
(* C1.  validate_header_range is fail-fast: a validator call that returns   *)
(* an error is the last call made, the range call has then returned, and   *)
(* what it returned is that very error wrapped with the header that call   *)
(* was validating (the child, not the parent, for the parent-relative      *)
(* check); and an error is returned only when the last call failed.        *)
(***************************************************************************)
C1_FailFast ==
    \A c \in DOMAIN headers :
        LET L == calls[c]
        IN  /\ \A k \in 1..Len(L) :
                  ~L[k].res.ok =>
                      /\ k = Len(L)
                      /\ Done(c)
                      /\ result[c] = HeaderConsensusError(L[k].res.err, L[k].header)
                      /\ L[k].header = headers[c][k \div 2 + 1]
            /\ (Done(c) /\ ~result[c].ok) => (Len(L) > 0 /\ ~L[Len(L)].res.ok)

\* A parent-relative check failed on a child that differs from its parent,
\* with headers left that were never looked at.
C1_Witness ==
    \E c \in DOMAIN headers :
        /\ Done(c) /\ ~result[c].ok
        /\ Len(calls[c]) >= 3
        /\ calls[c][Len(calls[c])].op = "validate_header_against_parent"
        /\ result[c].header # calls[c][Len(calls[c])].parent
        /\ iter[c] # <<>>

(***************************************************************************)
(* C2.  On a non-empty sequence on which every check passes, the calls     *)
(* made are exactly, in this order: validate_header(headers[1]), then for  *)
(* i = 2..n validate_header(headers[i]) followed by                        *)
(* validate_header_against_parent(headers[i], headers[i-1]); nothing else  *)
(* is called and the range call returns success.                           *)
(***************************************************************************)
C2_LeftToRight ==
    \A c \in DOMAIN headers :
        LET L == calls[c]
            n == Len(headers[c])
        IN  (n >= 1 /\ AllChecksPass(validator, headers[c])) =>
                /\ Len(L) <= 2 * n - 1
                /\ \A k \in 1..Len(L) : L[k] = ExpectedCall(validator, headers[c], k)
                /\ Done(c) => (Len(L) = 2 * n - 1 /\ result[c] = Ok)

\* A linked chain of three headers accepted by the ruleset that checks linkage.
C2_Witness ==
    \E c \in DOMAIN headers :
        /\ Done(c) /\ result[c] = Ok
        /\ Len(headers[c]) >= 3
        /\ validator = "eth"
        /\ AllChecksPass(validator, headers[c])

(***************************************************************************)
(* C3, as stated.  Under the ruleset that checks parent linkage,           *)
(* validate_header_range([h0, h1]) with h1.parent_hash # hash(h0) fails     *)
(* and the error wraps h1.                                                 *)
(***************************************************************************)
C3_Original ==
    \A c \in DOMAIN headers :
        ( /\ validator = "eth"
          /\ Len(headers[c]) = 2
          /\ headers[c][2].parent_hash # headers[c][1].hash
          /\ Done(c) )
        => (~result[c].ok /\ result[c].header = headers[c][2])

(***************************************************************************)
(* C3, amended.  The same, provided h0 itself passes validate_header: the  *)
(* call fails and the error wraps h1.                                      *)
(***************************************************************************)
C3_ParentHashMismatchWrapsChild ==
    \A c \in DOMAIN headers :
        ( /\ validator = "eth"
          /\ Len(headers[c]) = 2
          /\ headers[c][2].parent_hash # headers[c][1].hash
          /\ validate_header(validator, headers[c][1]).ok
          /\ Done(c) )
        => (~result[c].ok /\ result[c].header = headers[c][2])

\* h1 follows h0 by number but names another parent: ParentHashMismatch on h1.
C3_Witness ==
    \E c \in DOMAIN headers :
        /\ validator = "eth" /\ Done(c)
        /\ Len(headers[c]) = 2
        /\ headers[c][2].parent_hash # headers[c][1].hash
        /\ headers[c][2] # headers[c][1]
        /\ result[c] = HeaderConsensusError(
               ParentHashMismatch(headers[c][2].parent_hash, headers[c][1].hash),
               headers[c][2])

(***************************************************************************)
(* C4.  On the empty sequence validate_header_range returns success and    *)
(* calls neither validate_header nor validate_header_against_parent.       *)
(***************************************************************************)
C4_EmptyRange ==
    \A c \in DOMAIN headers :
        headers[c] = <<>> =>
            /\ calls[c] = <<>>
            /\ Done(c) => result[c] = Ok

C4_Witness ==
    \E c \in DOMAIN headers : headers[c] = <<>> /\ Done(c) /\ result[c] = Ok

(***************************************************************************)
(* C5.  On a one-element sequence [h0] the only validator call is one      *)
(* validate_header(h0); the result is success when that call succeeds and  *)
(* otherwise its error wrapped with h0.                                    *)
(***************************************************************************)
C5_SingleHeader ==
    \A c \in DOMAIN headers :
        Len(headers[c]) = 1 =>
            LET L == calls[c]
                h0 == headers[c][1]
                r == validate_header(validator, h0)
            IN  /\ Len(L) <= 1
                /\ \A k \in 1..Len(L) : L[k].op = "validate_header" /\ L[k].header = h0
                /\ Done(c) =>
                      /\ Len(L) = 1
                      /\ result[c] = IF r.ok THEN Ok ELSE HeaderConsensusError(r.err, h0)

\* A single header that fails its standalone check.
C5_Witness ==
    \E c \in DOMAIN headers :
        /\ Len(headers[c]) = 1 /\ Done(c)
        /\ ~result[c].ok /\ result[c].header = headers[c][1]
        /\ Len(calls[c]) = 1

(***************************************************************************)
(* ConsensusError values, is_state_root_error and the conversion from      *)
(* InvalidTransactionError.                                                *)
(***************************************************************************)
Payloads == 0..MaxPayload

\* Sample values of the transaction-validity error that is embedded verbatim.
InvalidTransactionErrors == {"InsufficientFunds", "NonceNotConsistent", "ChainIdMismatch"}

\* Sample messages of the open-ended variant.
OtherMessages == {"", "l2 rule", "BodyStateRootDiff"}

\* Sample per-transaction gas breakdowns.
GasSpentSamples == {<<>>} \cup {<<<<0, p>>>> : p \in Payloads}

ConsensusErrors ==
    {HeaderGasUsedExceedsGasLimit(a, b) : a \in Payloads, b \in Payloads}
    \cup {HeaderGasLimitExceedsMax(a) : a \in Payloads}
    \cup {BlockGasUsed(a, b, g) : a \in Payloads, b \in Payloads, g \in GasSpentSamples}
    \cup {BodyOmmersHashDiff(a, b) : a \in Payloads, b \in Payloads}
    \cup {BodyStateRootDiff(a, b) : a \in Payloads, b \in Payloads}
    \cup {BodyTransactionRootDiff(a, b) : a \in Payloads, b \in Payloads}
    \cup {BodyReceiptRootDiff(a, b) : a \in Payloads, b \in Payloads}
    \cup {BodyBloomLogDiff(a, b) : a \in Payloads, b \in Payloads}
    \cup {BodyWithdrawalsRootDiff(a, b) : a \in Payloads, b \in Payloads}
    \cup {BodyRequestsHashDiff(a, b) : a \in Payloads, b \in Payloads}
    \cup {BlockKnown(a, b) : a \in Payloads, b \in Payloads}
    \cup {ParentUnknown(a) : a \in Payloads}
    \cup {ParentBlockNumberMismatch(a, b) : a \in Payloads, b \in Payloads}
    \cup {ParentHashMismatch(a, b) : a \in Payloads, b \in Payloads}
    \cup {TimestampIsInFuture(a, b) : a \in Payloads, b \in Payloads}
    \cup {UnitError(k) : k \in UnitErrorKinds}
    \cup {ExtraDataExceedsMax(a) : a \in Payloads}
    \cup {BlobGasUsedExceedsMaxBlobGasPerBlock(a, b) : a \in Payloads, b \in Payloads}
    \cup {BlobGasUsedNotMultipleOfBlobGasPerBlob(a, b) : a \in Payloads, b \in Payloads}
    \cup {BlobGasUsedDiff(a, b) : a \in Payloads, b \in Payloads}
    \cup {InvalidTransaction(v) : v \in InvalidTransactionErrors}
    \cup {BaseFeeDiff(a, b) : a \in Payloads, b \in Payloads}
    \cup {ExcessBlobGasDiff(a, b, a, b) : a \in Payloads, b \in Payloads}
    \cup {GasLimitInvalidIncrease(a, b) : a \in Payloads, b \in Payloads}
    \cup {GasLimitInvalidMinimum(a) : a \in Payloads}
    \cup {GasLimitInvalidBlockMaximum(a) : a \in Payloads}
    \cup {GasLimitInvalidDecrease(a, b) : a \in Payloads, b \in Payloads}
    \cup {TimestampIsInPast(a, b) : a \in Payloads, b \in Payloads}
    \cup {Other(m) : m \in OtherMessages}

\* A predicate that takes every mismatched root of the block for a state root error.
is_any_root_error(e) ==
    e.kind \in {"BodyStateRootDiff", "BodyTransactionRootDiff", "BodyReceiptRootDiff",
                "BodyWithdrawalsRootDiff"}

\* matches!(self, Self::BodyStateRootDiff(_))
is_state_root_error(e) == e.kind = "BodyStateRootDiff"

\* impl From<InvalidTransactionError> for ConsensusError
From(value) == InvalidTransaction(value)

\* A caller holds some ConsensusError and has not classified it.
ErrInit ==
    /\ validator = "noop"
    /\ headers = <<>>
    /\ iter = <<>>
    /\ parent = <<>>
    /\ child = <<>>
    /\ pc = <<>>
    /\ result = <<>>
    /\ calls = <<>>
    /\ error \in ConsensusErrors
    /\ state_root_flag = <<>>
    /\ from_tx = FALSE

\* The caller asks whether its error is a state root error.
IsStateRootError ==
    /\ state_root_flag = <<>>
    /\ state_root_flag' = <<is_state_root_error(error)>>
    /\ UNCHANGED <<error, from_tx, range_vars>>

\* The caller converts a transaction-validity error into a ConsensusError.
FromInvalidTransactionError ==
    /\ ~from_tx
    /\ \E value \in InvalidTransactionErrors :
          /\ error' = From(value)
          /\ from_tx' = TRUE
          /\ state_root_flag' = <<>>
    /\ UNCHANGED range_vars

ErrNext == IsStateRootError \/ FromInvalidTransactionError

ErrSpec == ErrInit /\ [][ErrNext]_vars

\* The kinds of every variant but BodyStateRootDiff.
OtherKinds ==
    {e.kind : e \in ConsensusErrors} \ {"BodyStateRootDiff"}

(***************************************************************************)
(* C6.  is_state_root_error answers true exactly for BodyStateRootDiff     *)
(* values; for a value of any other variant (BlockGasUsed, the other       *)
(* Body*Diff variants, InvalidTransaction whether built directly or by the *)
(* From conversion, Other, ...) it answers false.                          *)
(***************************************************************************)
C6_StateRootErrorOnly ==
    state_root_flag # <<>> =>
        /\ state_root_flag[1] =>
              error \in {BodyStateRootDiff(a, b) : a \in Payloads, b \in Payloads}
        /\ error.kind = "BodyStateRootDiff" => state_root_flag[1]
        /\ error.kind \in OtherKinds => ~state_root_flag[1]
        /\ error.kind \in {"BlockGasUsed", "BodyOmmersHashDiff", "BodyTransactionRootDiff",
                           "BodyReceiptRootDiff", "BodyBloomLogDiff",
                           "BodyWithdrawalsRootDiff", "BodyRequestsHashDiff",
                           "InvalidTransaction", "Other"} => ~state_root_flag[1]

\* An InvalidTransaction produced by the conversion, classified as no state root error.
C6_Witness ==
    /\ from_tx
    /\ error.kind = "InvalidTransaction"
    /\ state_root_flag = <<FALSE>>

\* A BodyStateRootDiff classified as a state root error.
C6_WitnessTrue ==
    /\ error.kind = "BodyStateRootDiff"
    /\ state_root_flag = <<TRUE>>

(***************************************************************************)
(* validate_header_range as the function of its arguments that one call,   *)
(* run from entry to return with nothing else going on, computes.          *)
(***************************************************************************)
RECURSIVE RangeLoop(_, _, _)
RangeLoop(v, parent_header, rest) ==
    IF rest = <<>> THEN Ok
    ELSE LET child_header == Head(rest)
             r1 == validate_header(v, child_header)
             r2 == validate_header_against_parent(v, child_header, parent_header)
         IN  IF ~r1.ok THEN HeaderConsensusError(r1.err, child_header)
             ELSE IF ~r2.ok THEN HeaderConsensusError(r2.err, child_header)
             ELSE RangeLoop(v, child_header, Tail(rest))

validate_header_range(v, hs) ==
    IF hs = <<>> THEN Ok
    ELSE LET r == validate_header(v, Head(hs))
         IN  IF ~r.ok THEN HeaderConsensusError(r.err, Head(hs))
             ELSE RangeLoop(v, Head(hs), Tail(hs))

\* What belongs to call c alone.
Locals(c) == <<iter[c], parent[c], child[c], pc[c], result[c], calls[c]>>

(***************************************************************************)
(* C7.  Calls of validate_header_range interleaved step by step on the     *)
(* same validator instance do not disturb each other: every call returns   *)
(* what it returns when run alone, and a step of one call changes neither  *)
(* the validator, nor any input slice, nor anything that belongs to        *)
(* another call.                                                           *)
(***************************************************************************)
C7_ConcurrentCallsIndependent ==
    /\ [](\A c \in DOMAIN headers :
             Done(c) => result[c] = validate_header_range(validator, headers[c]))
    /\ [][\A c \in DOMAIN headers :
             Locals(c)' # Locals(c) =>
                 /\ validator' = validator
                 /\ headers' = headers
                 /\ \A d \in DOMAIN headers \ {c} : Locals(d)' = Locals(d)]_vars

\* One call has returned an error while another, on a different slice, is in
\* the middle of its loop.
C7_Witness ==
    \E c, d \in DOMAIN headers :
        /\ c # d
        /\ headers[c] # headers[d]
        /\ Done(c) /\ ~result[c].ok
        /\ pc[d] = "against_parent"
        /\ parent[d] # parent[c]

\* The outcome of the checks on the elements and adjacent pairs of hs taken in
\* the order given: the first failure with its header, success if there is none.
FirstFailure(v, hs) ==
    LET n == Len(hs)
        failing == {k \in 1..(2 * n - 1) : ~ExpectedCall(v, hs, k).res.ok}
    IN  IF n = 0 \/ failing = {} THEN Ok
        ELSE LET k == CHOOSE x \in failing : \A y \in failing : x <= y
             IN  HeaderConsensusError(ExpectedCall(v, hs, k).res.err,
                                      ExpectedCall(v, hs, k).header)

\* Consecutive elements that skip a block number.
HasGap(hs) == \E i \in 1..(Len(hs) - 1) : hs[i + 1].number > hs[i].number + 1

\* Consecutive elements whose block number repeats or goes down.
HasDuplicateOrDescent(hs) == \E i \in 1..(Len(hs) - 1) : hs[i + 1].number <= hs[i].number

(***************************************************************************)
(* C8.  The result of validate_header_range is determined by the results   *)
(* of validate_header on the elements and of                               *)
(* validate_header_against_parent on the adjacent pairs, in the order      *)
(* given, and by nothing else: no sorting, no deduplication, no check of   *)
(* block numbers of its own.  In particular a sequence is accepted         *)
(* whenever those checks all pass, whatever its block numbers are.         *)
(***************************************************************************)
C8_NoOrderingCheckOfItsOwn ==
    \A c \in DOMAIN headers :
        Done(c) =>
            /\ result[c] = FirstFailure(validator, headers[c])
            /\ AllChecksPass(validator, headers[c]) => result[c] = Ok

\* A sequence with a gap and with a repeated or descending number, accepted.
C8_Witness ==
    \E c \in DOMAIN headers :
        /\ Done(c) /\ result[c] = Ok
        /\ HasGap(headers[c])
        /\ HasDuplicateOrDescent(headers[c])

StrictlyAscending(hs) == \A i \in 1..(Len(hs) - 1) : hs[i].number < hs[i + 1].number

(***************************************************************************)
(* C9, as stated.  For an input in ascending block-number order no         *)
(* validator call of validate_header_range has a header of block number 0  *)
(* as the header under validation.                                         *)
(***************************************************************************)
C9_Original ==
    \A c \in DOMAIN headers :
        StrictlyAscending(headers[c]) =>
            \A k \in 1..Len(calls[c]) : calls[c][k].header.number # 0

(***************************************************************************)
(* C9, amended.  For an input in strictly ascending block-number order,    *)
(* validate_header_against_parent is never called with a header of block    *)
(* number 0 as the child; validate_header is called on such a header only  *)
(* as the first call, on the first element of the range.                   *)
(***************************************************************************)
C9_GenesisNeverChild ==
    \A c \in DOMAIN headers :
        StrictlyAscending(headers[c]) =>
            \A k \in 1..Len(calls[c]) :
                calls[c][k].header.number = 0 =>
                    /\ calls[c][k].op = "validate_header"
                    /\ k = 1
                    /\ calls[c][k].header = headers[c][1]

\* A range that starts at genesis and goes on: genesis was validated standalone.
C9_Witness ==
    \E c \in DOMAIN headers :
        /\ StrictlyAscending(headers[c])
        /\ Len(headers[c]) >= 2
        /\ Done(c) /\ result[c] = Ok
        /\ validator = "eth"
        /\ calls[c][1].op = "validate_header"
        /\ calls[c][1].header.number = 0

\* Everything but the gas limit is in order between a header and its parent.
OtherFieldsValid(header, parent_header) ==
    /\ header.number = parent_header.number + 1
    /\ header.parent_hash = parent_header.hash
    /\ header.timestamp > parent_header.timestamp

(***************************************************************************)
(* C10.  In validate_header_against_parent of the ruleset of section 4.1,  *)
(* with parent gas limit G and every other field valid, a child gas limit  *)
(* of G + floor(G/1024) is accepted and a child gas limit of               *)
(* G + floor(G/1024) + 1 is rejected with GasLimitInvalidIncrease carrying *)
(* G and the child's gas limit.                                            *)
(***************************************************************************)
C10_GasLimitStepBound ==
    validator = "eth" =>
        \A c \in DOMAIN headers :
            \A k \in 1..Len(calls[c]) :
                LET call == calls[c][k]
                    G == call.parent.gas_limit
                IN  ( /\ call.op = "validate_header_against_parent"
                      /\ OtherFieldsValid(call.header, call.parent) )
                    => /\ call.header.gas_limit = G + G \div 1024 => call.res = Ok
                       /\ call.header.gas_limit = G + G \div 1024 + 1 =>
                              call.res = Err(GasLimitInvalidIncrease(G, call.header.gas_limit))

\* A child whose gas limit sits exactly on the bound, accepted.
C10_Witness ==
    \E c \in DOMAIN headers :
        \E k \in 1..Len(calls[c]) :
            /\ validator = "eth"
            /\ calls[c][k].op = "validate_header_against_parent"
            /\ OtherFieldsValid(calls[c][k].header, calls[c][k].parent)
            /\ calls[c][k].parent.gas_limit \div 1024 >= 1
            /\ calls[c][k].header.gas_limit =
                   calls[c][k].parent.gas_limit + calls[c][k].parent.gas_limit \div 1024
            /\ calls[c][k].res = Ok

\* A child whose gas limit is one above the bound, rejected.
C10_WitnessRejected ==
    \E c \in DOMAIN headers :
        \E k \in 1..Len(calls[c]) :
            /\ validator = "eth"
            /\ OtherFieldsValid(calls[c][k].header, calls[c][k].parent)
            /\ calls[c][k].op = "validate_header_against_parent"
            /\ calls[c][k].res.ok = FALSE
            /\ calls[c][k].res.err.kind = "GasLimitInvalidIncrease"

(***************************************************************************)
(* C11.  For every header after the first, the standalone check runs       *)
(* before the parent-relative check: a call of                             *)
(* validate_header_against_parent is always directly preceded by a         *)
(* successful validate_header on the same child; when validate_header      *)
(* fails on such a header no parent-relative check is made for it and the  *)
(* range call returns that standalone error with that header, whether or   *)
(* not the parent-relative check would fail too; and the parent handed to  *)
(* a parent-relative check is a header that was checked before and did not *)
(* fail.                                                                   *)
(***************************************************************************)
C11_StandaloneBeforeParent ==
    \A c \in DOMAIN headers :
        LET L == calls[c]
        IN  \A k \in 1..Len(L) :
                /\ L[k].op = "validate_header_against_parent" =>
                      /\ k >= 2
                      /\ L[k - 1].op = "validate_header"
                      /\ L[k - 1].header = L[k].header
                      /\ L[k - 1].res.ok
                      /\ \E m \in 1..(k - 1) :
                            L[m].op = "validate_header" /\ L[m].header = L[k].parent
                      /\ \A m \in 1..(k - 1) : L[m].header = L[k].parent => L[m].res.ok
                /\ (L[k].op = "validate_header" /\ k >= 2 /\ ~L[k].res.ok) =>
                      /\ k = Len(L)
                      /\ Done(c)
                      /\ L[k].header = headers[c][k \div 2 + 1]
                      /\ result[c] = HeaderConsensusError(
                             validate_header(validator, L[k].header).err, L[k].header)

\* A later header failed its standalone check where its check against the
\* preceding header would have failed as well: the standalone error is returned.
C11_Witness ==
    \E c \in DOMAIN headers :
        LET L == calls[c]
            k == Len(L)
        IN  /\ validator = "eth"
            /\ Done(c) /\ ~result[c].ok
            /\ k >= 2
            /\ L[k].op = "validate_header"
            /\ ~validate_header_against_parent(
                   validator, headers[c][k \div 2 + 1], headers[c][k \div 2]).ok
            /\ result[c].header = headers[c][k \div 2 + 1]
            /\ result[c].err.kind = "HeaderGasUsedExceedsGasLimit"

====
